---- MODULE Spec2Model ----
(***************************************************************************)
(* Model of the weather ETL job of src/main.py: the fetch loop             *)
(* (get_weather_data), the two flattening loops, the forecast transformer, *)
(* the BigQuery table writer (upload_df_to_bigquery) and the orchestrator  *)
(* (main).                                                                 *)
(*                                                                         *)
(* Three specifications share the module:                                  *)
(*   Spec          the orchestrator, run repeatedly against one warehouse  *)
(*   SpecFlatten   the two flattening functions applied to bounded inputs  *)
(*   SpecForecast  transform_forecasted_weather_data on bounded inputs     *)
(***************************************************************************)
EXTENDS Integers, Sequences, FiniteSets, TLC

(***************************************************************************)
(* Bounds of the model.                                                    *)
(***************************************************************************)
MaxKeys == 2
MaxSub == 1
MaxIntervals == 2
MaxLocations == 2
MaxRuns == 2

(***************************************************************************)
(* JSON values.  Every value is a record of the same shape; `kind` says    *)
(* which field carries the payload.                                        *)
(*   scalar: an integer (n)          str:  a string (s)                    *)
(*   dict:   a Python dict (d), kept as the sequence of its <<key, value>> *)
(*           items in insertion order, keys distinct                       *)
(*   list:   a Python list (l)       nan:  a missing cell of a DataFrame   *)
(***************************************************************************)
Scalar(n) == [kind |-> "scalar", n |-> n, s |-> "", d |-> <<>>, l |-> <<>>]
Str(s) == [kind |-> "str", n |-> 0, s |-> s, d |-> <<>>, l |-> <<>>]
Dict(d) == [kind |-> "dict", n |-> 0, s |-> "", d |-> d, l |-> <<>>]
List(l) == [kind |-> "list", n |-> 0, s |-> "", d |-> <<>>, l |-> l]
NaN == [kind |-> "nan", n |-> 0, s |-> "", d |-> <<>>, l |-> <<>>]

isinstance_dict(value) == value.kind = "dict"

(* Python dict primitives on the item-sequence representation. *)
DictKeys(d) == {d[i][1] : i \in DOMAIN d}
HasKey(d, k) == \E i \in DOMAIN d : d[i][1] = k
DictGet(d, k) == d[CHOOSE i \in DOMAIN d : d[i][1] = k][2]
(* d[k] = v : an existing key keeps its position and takes the new value. *)
DictSet(d, k, v) ==
    IF HasKey(d, k)
    THEN [i \in DOMAIN d |-> IF d[i][1] = k THEN <<k, v>> ELSE d[i]]
    ELSE Append(d, <<k, v>>)

(* The separator left out of the compound name. *)
CompoundKey_nosep(key, sub_key) == key \o sub_key

(* f"{key}_{sub_key}" *)
CompoundKey(key, sub_key) == key \o "_" \o sub_key

(***************************************************************************)
(* convert_weather_api_dict_to_dataframe, the loop of lines 157-163.       *)
(***************************************************************************)
RECURSIVE extracted_sub(_, _, _, _)
extracted_sub(extracted_data, key, value, j) ==
    IF j > Len(value) THEN extracted_data
    ELSE extracted_sub(DictSet(extracted_data, CompoundKey(key, value[j][1]), value[j][2]),
                       key, value, j + 1)

RECURSIVE extracted_loop(_, _, _)
extracted_loop(extracted_data, data_dict, i) ==
    IF i > Len(data_dict) THEN extracted_data
    ELSE LET key == data_dict[i][1]
             value == data_dict[i][2]
         IN  IF isinstance_dict(value)
             THEN extracted_loop(extracted_sub(extracted_data, key, value.d, 1), data_dict, i + 1)
             ELSE extracted_loop(DictSet(extracted_data, key, value), data_dict, i + 1)

extracted_data_of(data_dict) == extracted_loop(<<>>, data_dict, 1)

(***************************************************************************)
(* transform_current_weather_data, the loop of lines 129-135.              *)
(***************************************************************************)
RECURSIVE flattened_sub(_, _, _, _)
flattened_sub(flattened_data, key, value, j) ==
    IF j > Len(value) THEN flattened_data
    ELSE flattened_sub(DictSet(flattened_data, CompoundKey(key, value[j][1]), value[j][2]),
                       key, value, j + 1)

RECURSIVE flattened_loop(_, _, _)
flattened_loop(flattened_data, data_dict, i) ==
    IF i > Len(data_dict) THEN flattened_data
    ELSE LET key == data_dict[i][1]
             value == data_dict[i][2]
         IN  IF isinstance_dict(value)
             THEN flattened_loop(flattened_sub(flattened_data, key, value.d, 1), data_dict, i + 1)
             ELSE flattened_loop(DictSet(flattened_data, key, value), data_dict, i + 1)

flattened_data_of(data_dict) == flattened_loop(<<>>, data_dict, 1)

(***************************************************************************)
(* DataFrames: the column names in order, and the rows, each a sequence of *)
(* cells aligned with the columns.                                         *)
(***************************************************************************)
EmptyDataFrame == [columns |-> <<>>, rows |-> <<>>]

(* pd.DataFrame([row_dict]) : one row, one column per key. *)
DataFrameOfDict(row_dict) ==
    [columns |-> [i \in DOMAIN row_dict |-> row_dict[i][1]],
     rows |-> << [i \in DOMAIN row_dict |-> row_dict[i][2]] >>]

ColumnIndex(df, c) == CHOOSE i \in DOMAIN df.columns : df.columns[i] = c
HasColumn(df, c) == \E i \in DOMAIN df.columns : df.columns[i] = c
Cell(df, r, c) == IF HasColumn(df, c) THEN df.rows[r][ColumnIndex(df, c)] ELSE NaN

(* The columns of b that a does not have, in b's order. *)
NewColumns(a, b) ==
    LET F[i \in 0..Len(b.columns)] ==
            IF i = 0 THEN <<>>
            ELSE IF HasColumn(a, b.columns[i]) THEN F[i - 1] ELSE Append(F[i - 1], b.columns[i])
    IN  F[Len(b.columns)]

(* pd.concat([a, b]) : outer union of the columns (a's first, then b's new *)
(* ones), a's rows followed by b's, missing cells NaN.                     *)
Concat(a, b) ==
    LET cols == a.columns \o NewColumns(a, b)
        Widen(df, r) == [i \in DOMAIN cols |-> Cell(df, r, cols[i])]
    IN  [columns |-> cols,
         rows |-> [r \in 1..(Len(a.rows) + Len(b.rows)) |->
                      IF r <= Len(a.rows) THEN Widen(a, r)
                      ELSE Widen(b, r - Len(a.rows))]]

(* df[c] = values : an existing column is overwritten in place, a new one *)
(* is appended; values holds one cell per row.                             *)
SetColumn(df, c, values) ==
    IF HasColumn(df, c)
    THEN [columns |-> df.columns,
          rows |-> [r \in DOMAIN df.rows |->
                       [i \in DOMAIN df.columns |->
                           IF df.columns[i] = c THEN values[r] ELSE df.rows[r][i]]]]
    ELSE [columns |-> Append(df.columns, c),
          rows |-> [r \in DOMAIN df.rows |-> Append(df.rows[r], values[r])]]

(* forecast_df.merge(city_df, how='cross') : every left row paired with    *)
(* every right row, left-major; a column name present on both sides takes  *)
(* the suffix _x on the left and _y on the right.                          *)
MergeCross(left, right) ==
    LET nl == Len(left.rows)
        nr == Len(right.rows)
        lcols == [i \in DOMAIN left.columns |->
                     IF HasColumn(right, left.columns[i])
                     THEN left.columns[i] \o "_x" ELSE left.columns[i]]
        rcols == [i \in DOMAIN right.columns |->
                     IF HasColumn(left, right.columns[i])
                     THEN right.columns[i] \o "_y" ELSE right.columns[i]]
    IN  [columns |-> lcols \o rcols,
         rows |-> [k \in 1..(nl * nr) |->
                      left.rows[((k - 1) \div nr) + 1] \o right.rows[((k - 1) % nr) + 1]]]

(***************************************************************************)
(* pd.to_datetime(dt, unit='s') followed by strftime('%Y-%m-%d %H:%M:%S'): *)
(* the UTC calendar time of an epoch-seconds value (proleptic Gregorian).  *)
(***************************************************************************)
Digit(n) == <<"0", "1", "2", "3", "4", "5", "6", "7", "8", "9">>[n + 1]
Pad2(n) == Digit((n \div 10) % 10) \o Digit(n % 10)
Pad4(n) == Pad2(n \div 100) \o Pad2(n % 100)

EpochToText(dt) ==
    LET days == dt \div 86400
        secs == dt % 86400
        z == days + 719468
        era == z \div 146097
        doe == z - era * 146097
        yoe == (doe - (doe \div 1460) + (doe \div 36524) - (doe \div 146096)) \div 365
        doy == doe - (365 * yoe + (yoe \div 4) - (yoe \div 100))
        mp == (5 * doy + 2) \div 153
        day == doy - ((153 * mp + 2) \div 5) + 1
        month == IF mp < 10 THEN mp + 3 ELSE mp - 9
        year == yoe + era * 400 + (IF month <= 2 THEN 1 ELSE 0)
    IN  Pad4(year) \o "-" \o Pad2(month) \o "-" \o Pad2(day) \o " "
        \o Pad2(secs \div 3600) \o ":" \o Pad2((secs % 3600) \div 60) \o ":" \o Pad2(secs % 60)

(* Lines 138-143: the one-row frame and its derived dt_txt column. *)
current_data_df(flattened_data) ==
    LET data_df == DataFrameOfDict(flattened_data)
        dt_txt == [r \in DOMAIN data_df.rows |->
                      Str(EpochToText(data_df.rows[r][ColumnIndex(data_df, "dt")].n))]
    IN  IF HasColumn(data_df, "dt") THEN SetColumn(data_df, "dt_txt", dt_txt) ELSE data_df

transform_current_weather_data(data_dict) == current_data_df(flattened_data_of(data_dict))

convert_weather_api_dict_to_dataframe(data_dict) == DataFrameOfDict(extracted_data_of(data_dict))

(***************************************************************************)
(* transform_forecasted_weather_data, lines 179-191.                       *)
(***************************************************************************)
(* One iteration of the loop of lines 184-187. *)
forecast_item_step(forecast_df, forecast_item) ==
    LET item == DictSet(forecast_item, "weather", DictGet(forecast_item, "weather").l[1])
    IN  Concat(forecast_df, convert_weather_api_dict_to_dataframe(item))

RECURSIVE forecast_loop(_, _, _)
forecast_loop(forecast_df, forecasts_dict, i) ==
    IF i > Len(forecasts_dict) THEN forecast_df
    ELSE forecast_loop(forecast_item_step(forecast_df, forecasts_dict[i].d), forecasts_dict, i + 1)

forecast_city_df(data_dict) == convert_weather_api_dict_to_dataframe(DictGet(data_dict, "city").d)

(* The city table appended as a further row instead of joined. *)
forecast_merge_concat(forecast_df, city_df) == Concat(forecast_df, city_df)

forecast_merge(forecast_df, city_df) == MergeCross(forecast_df, city_df)

transform_forecasted_weather_data(data_dict) ==
    forecast_merge(forecast_loop(EmptyDataFrame, DictGet(data_dict, "list").l, 1),
                   forecast_city_df(data_dict))

(***************************************************************************)
(* State.                                                                  *)
(*   data_dict, local, result, fpc    one call of a transformer: its       *)
(*        argument, its local variables, its return value, its position    *)
(*   the rest                         main and the warehouse               *)
(***************************************************************************)
VARIABLES data_dict, local, result, fpc,
          pc, request, locations, li, weather_data, current_weather, forecast_weather,
          table_name, return_value, dataset_exists, tables, load_log, runs, calls, run_log

fnvars == <<data_dict, local, result, fpc>>
mainvars == <<pc, request, locations, li, weather_data, current_weather, forecast_weather,
              table_name, return_value, dataset_exists, tables, load_log, runs, calls, run_log>>
vars == <<data_dict, local, result, fpc,
          pc, request, locations, li, weather_data, current_weather, forecast_weather,
          table_name, return_value, dataset_exists, tables, load_log, runs, calls, run_log>>

NoTable == [exists |-> FALSE, columns |-> <<>>, rows |-> <<>>]
TableNames == {"current_weather", "forecasted_weather"}
NoLoads == [count |-> 0, last |-> EmptyDataFrame, repeated |-> FALSE]
EmptyRunLog == [parse |-> <<>>, transformed |-> {}, loads |-> <<>>, raised_in |-> ""]

(* main is not running: the state of the specifications of one function. *)
MainIdle ==
    /\ pc = "idle" /\ request = [type |-> "str", valid_json |-> TRUE]
    /\ locations = <<>> /\ li = 1
    /\ weather_data = [current |-> <<>>, forecast |-> <<>>]
    /\ current_weather = EmptyDataFrame /\ forecast_weather = EmptyDataFrame
    /\ table_name = "" /\ return_value = ""
    /\ dataset_exists = FALSE /\ tables = [t \in TableNames |-> NoTable]
    /\ load_log = [t \in TableNames |-> NoLoads]
    /\ runs = 0 /\ calls = <<>> /\ run_log = EmptyRunLog

(* No transformer is being stepped: the state of main's specifications. *)
FnIdle == data_dict = <<>> /\ local = <<>> /\ result = EmptyDataFrame /\ fpc = "idle"

(***************************************************************************)
(* Bounded inputs of the flattening functions.                             *)
(***************************************************************************)
TopKeys == {"a", "a_b", "dt"}
SubKeys == {"b", "c", "b_c"}
ScalarValues == {Scalar(1), Scalar(2)}

(* The dicts of at most n items with keys in `keys` and values in `vals`. *)
DictsOver(keys, vals, n) ==
    UNION {{d \in [1..m -> keys \X vals] :
               \A i, j \in 1..m : i # j => d[i][1] # d[j][1]} : m \in 0..n}

SubDicts == DictsOver(SubKeys, ScalarValues, MaxSub)
TopValues == ScalarValues \cup {Dict(d) : d \in SubDicts}
FlattenInputs == DictsOver(TopKeys, TopValues, MaxKeys)

InitFlatten ==
    /\ data_dict \in FlattenInputs
    /\ local = <<>> /\ result = EmptyDataFrame /\ fpc = "input"
    /\ MainIdle

(* transform_current_weather_data, lines 129-135 *)
FlattenCurrentLoop ==
    /\ fpc = "input"
    /\ local' = flattened_data_of(data_dict)
    /\ fpc' = "current_flattened"
    /\ UNCHANGED <<data_dict, result, mainvars>>

(* transform_current_weather_data, lines 138-143 *)
FlattenCurrentFrame ==
    /\ fpc = "current_flattened"
    /\ result' = current_data_df(local)
    /\ fpc' = "current_done"
    /\ UNCHANGED <<data_dict, local, mainvars>>

(* convert_weather_api_dict_to_dataframe, lines 157-163 *)
ConvertLoop ==
    /\ fpc = "input"
    /\ local' = extracted_data_of(data_dict)
    /\ fpc' = "convert_flattened"
    /\ UNCHANGED <<data_dict, result, mainvars>>

(* convert_weather_api_dict_to_dataframe, line 165 *)
ConvertFrame ==
    /\ fpc = "convert_flattened"
    /\ result' = DataFrameOfDict(local)
    /\ fpc' = "convert_done"
    /\ UNCHANGED <<data_dict, local, mainvars>>

NextFlatten == FlattenCurrentLoop \/ FlattenCurrentFrame \/ ConvertLoop \/ ConvertFrame

SpecFlatten == InitFlatten /\ [][NextFlatten]_vars

(***************************************************************************)
(* Bounded inputs of transform_forecasted_weather_data: a record with a    *)
(* non-empty `city` object and a `list` of 0..MaxIntervals intervals, each *)
(* carrying a one-element `weather` list.  The key "id" occurs on both     *)
(* sides, so the merge has to rename.                                      *)
(***************************************************************************)
CityKeys == {"id", "coord"}
CityValues == {Scalar(7), Dict(<< <<"lat", Scalar(8)>> >>)}
CityInputs == DictsOver(CityKeys, CityValues, MaxKeys) \ {<<>>}

ItemKeys == {"dt", "id"}
ItemValues == {Scalar(1), Dict(<< <<"temp", Scalar(2)>> >>)}
WeatherList == List(<< Dict(<< <<"id", Scalar(800)>> >>) >>)
ItemInputs == {Dict(Append(d, <<"weather", WeatherList>>)) : d \in DictsOver(ItemKeys, ItemValues, MaxKeys)}

ForecastInputs ==
    {<< <<"list", List(l)>>, <<"city", Dict(c)>> >> :
        l \in UNION {[1..n -> ItemInputs] : n \in 0..MaxIntervals}, c \in CityInputs}

InitForecast ==
    /\ data_dict \in ForecastInputs
    /\ local = <<>> /\ result = EmptyDataFrame /\ fpc = "input"
    /\ MainIdle

(* lines 179-183 *)
ForecastCity ==
    /\ fpc = "input"
    /\ local' = [city_df |-> forecast_city_df(data_dict), forecast_df |-> EmptyDataFrame, i |-> 1]
    /\ fpc' = "forecast_loop"
    /\ UNCHANGED <<data_dict, result, mainvars>>

(* lines 184-187, one iteration *)
ForecastItem ==
    /\ fpc = "forecast_loop"
    /\ local.i <= Len(DictGet(data_dict, "list").l)
    /\ local' = [local EXCEPT
                    !.forecast_df = forecast_item_step(@, DictGet(data_dict, "list").l[local.i].d),
                    !.i = @ + 1]
    /\ UNCHANGED <<data_dict, result, fpc, mainvars>>

(* line 191 *)
ForecastMerge ==
    /\ fpc = "forecast_loop"
    /\ local.i > Len(DictGet(data_dict, "list").l)
    /\ result' = forecast_merge(local.forecast_df, local.city_df)
    /\ fpc' = "forecast_done"
    /\ UNCHANGED <<data_dict, local, mainvars>>

NextForecast == ForecastCity \/ ForecastItem \/ ForecastMerge

SpecForecast == InitForecast /\ [][NextForecast]_vars

(***************************************************************************)
(* The inbound request (main, lines 195-198).  A payload is a Flask        *)
(* Request object, a str or a dict, and holds well-formed JSON or not.     *)
(***************************************************************************)
Requests == [type : {"Request", "str", "dict"}, valid_json : BOOLEAN]

(* request.get_json(): only a Request has the accessor (AttributeError     *)
(* otherwise); a malformed body raises BadRequest.                         *)
get_json_raises(req) == req.type # "Request" \/ ~req.valid_json

(* json.loads(request): TypeError unless given a str, JSONDecodeError on   *)
(* malformed text.                                                         *)
json_loads_raises(req) == req.type # "str" \/ ~req.valid_json

(* No fallback: what get_json raised propagates. *)
parse_except_raise(exc) == "raise"

(* The bare except of line 197: whatever get_json raised, fall back. *)
parse_except(exc) == "fallback"

(***************************************************************************)
(* The location registry and the provider's answers.                       *)
(***************************************************************************)
LocationName(i) == "loc" \o Digit(i)
Registry(n) ==
    [i \in 1..n |-> <<LocationName(i), Dict(<< <<"lat", Scalar(40 + i)>>, <<"lon", Scalar(20 + i)>> >>)>>]

(* The JSON the provider returns for location i on the two endpoints; the  *)
(* forecast of location i has i intervals.                                 *)
CurrentJson(i) ==
    Dict(<< <<"coord", Dict(<< <<"lat", Scalar(40 + i)>>, <<"lon", Scalar(20 + i)>> >>)>>,
            <<"weather", List(<< Dict(<< <<"id", Scalar(800)>> >>) >>)>>,
            <<"main", Dict(<< <<"temp", Scalar(15)>> >>)>>,
            <<"dt", Scalar(1700000000)>>,
            <<"id", Scalar(i)>> >>)
ForecastItemJson(i, k) ==
    Dict(<< <<"dt", Scalar(1700000000 + 10800 * k)>>,
            <<"main", Dict(<< <<"temp", Scalar(10 + k)>> >>)>>,
            <<"weather", List(<< Dict(<< <<"id", Scalar(800 + k)>> >>) >>)>> >>)
ForecastJson(i) ==
    Dict(<< <<"list", List([k \in 1..i |-> ForecastItemJson(i, k)])>>,
            <<"city", Dict(<< <<"id", Scalar(i)>>,
                              <<"coord", Dict(<< <<"lat", Scalar(40 + i)>> >>)>> >>)>> >>)

(* What one GET can come to: no response at all, or a response with a      *)
(* status code and a body.                                                 *)
ProviderResponses(json) ==
    {[raised |-> "ConnectionError", status_code |-> 0, json |-> NaN],
     [raised |-> "", status_code |-> 200, json |-> json],
     [raised |-> "", status_code |-> 404, json |-> NaN],
     [raised |-> "", status_code |-> 500, json |-> NaN]}

(* fetch_api_data, lines 80-83: the exception raised ("" for none) and the *)
(* value returned.                                                         *)
fetch_api_data(response) ==
    IF response.raised # "" THEN [raise |-> response.raised, value |-> NaN]
    ELSE IF response.status_code >= 400 /\ response.status_code < 600
         THEN [raise |-> "HTTPError", value |-> NaN]
         ELSE [raise |-> "", value |-> response.json]

(* An except clause that misses the HTTP status errors. *)
is_ConnectionError(exc) == exc \in {"ConnectionError", "Timeout"}

(* except requests.exceptions.RequestException (line 107) *)
is_RequestException(exc) == exc \in {"ConnectionError", "HTTPError", "Timeout"}

(***************************************************************************)
(* The warehouse (lines 31-64).                                            *)
(***************************************************************************)
(* The load configured to append (the alternative noted on line 44). *)
job_config_append ==
    [autodetect |-> TRUE, write_disposition |-> "WRITE_APPEND",
     create_disposition |-> "CREATE_IF_NEEDED"]

job_config ==
    [autodetect |-> TRUE, write_disposition |-> "WRITE_TRUNCATE",
     create_disposition |-> "CREATE_IF_NEEDED"]

(* The table a successful load job leaves behind. *)
load_table_from_dataframe(table, dataframe, config) ==
    IF config.write_disposition = "WRITE_TRUNCATE" \/ ~table.exists
    THEN [exists |-> TRUE, columns |-> dataframe.columns, rows |-> dataframe.rows]
    ELSE IF config.write_disposition = "WRITE_APPEND"
         THEN [exists |-> TRUE] @@ Concat([columns |-> table.columns, rows |-> table.rows], dataframe)
         ELSE table

(* client.create_dataset: creates an absent dataset or fails; an existing  *)
(* one is a Conflict.                                                      *)
create_dataset_outcomes(exists) ==
    IF exists THEN {"Conflict", "ServiceUnavailable"}
    ELSE {"created", "Forbidden", "ServiceUnavailable"}

(* The bare except of lines 36-37: every exception is swallowed. *)
create_dataset_except(exc) == "pass"

(* A load job into an absent dataset fails (NotFound); into an existing    *)
(* one it completes or fails.                                              *)
load_outcomes(exists) == IF exists THEN {"DONE", "BadRequest"} ELSE {"NotFound"}

(* The load error logged but not re-raised. *)
load_except_swallow(exc) == "pass"

(* except Exception as e: ... raise e (lines 59-64) *)
load_except(exc) == "raise"

(* main with each table written as soon as it is transformed. *)
main_after_interleaved(step) ==
    CASE step = "parse" -> [pc |-> "fetch_current", table_name |-> ""]
      [] step = "get_weather_data" -> [pc |-> "transform_current", table_name |-> ""]
      [] step = "transform_current" -> [pc |-> "create_dataset", table_name |-> "current_weather"]
      [] step = "current_weather" -> [pc |-> "transform_forecast", table_name |-> ""]
      [] step = "transform_forecast" -> [pc |-> "create_dataset", table_name |-> "forecasted_weather"]
      [] step = "forecasted_weather" -> [pc |-> "return", table_name |-> ""]

(***************************************************************************)
(* main's statements in order (lines 195-212): what follows each.          *)
(***************************************************************************)
main_after(step) ==
    CASE step = "parse" -> [pc |-> "fetch_current", table_name |-> ""]
      [] step = "get_weather_data" -> [pc |-> "transform_current", table_name |-> ""]
      [] step = "transform_current" -> [pc |-> "transform_forecast", table_name |-> ""]
      [] step = "transform_forecast" -> [pc |-> "create_dataset", table_name |-> "current_weather"]
      [] step = "current_weather" -> [pc |-> "create_dataset", table_name |-> "forecasted_weather"]
      [] step = "forecasted_weather" -> [pc |-> "return", table_name |-> ""]

(* The loops of lines 202-204 and 205-207 over the fetched records. *)
RECURSIVE current_weather_loop(_, _, _)
current_weather_loop(df, items, i) ==
    IF i > Len(items) THEN df
    ELSE current_weather_loop(Concat(df, transform_current_weather_data(items[i][2].d)), items, i + 1)

RECURSIVE forecast_weather_loop(_, _, _)
forecast_weather_loop(df, items, i) ==
    IF i > Len(items) THEN df
    ELSE forecast_weather_loop(Concat(df, transform_forecasted_weather_data(items[i][2].d)), items, i + 1)

NoCalls(n) ==
    [i \in 1..n |-> [current |-> 0, forecast |-> 0, current_ok |-> FALSE, forecast_ok |-> FALSE]]

(* A fresh invocation of main on `req`. *)
Start(req) ==
    /\ pc' = "parse" /\ request' = req /\ li' = 1
    /\ weather_data' = [current |-> <<>>, forecast |-> <<>>]
    /\ current_weather' = EmptyDataFrame /\ forecast_weather' = EmptyDataFrame
    /\ table_name' = "" /\ return_value' = ""
    /\ calls' = NoCalls(Len(locations)) /\ run_log' = EmptyRunLog

Init ==
    /\ FnIdle
    /\ \E n \in 0..MaxLocations : locations = Registry(n) /\ calls = NoCalls(n)
    /\ request \in Requests
    /\ pc = "parse" /\ li = 1
    /\ weather_data = [current |-> <<>>, forecast |-> <<>>]
    /\ current_weather = EmptyDataFrame /\ forecast_weather = EmptyDataFrame
    /\ table_name = "" /\ return_value = ""
    /\ dataset_exists \in BOOLEAN
    /\ tables = [t \in TableNames |-> NoTable]
    /\ load_log = [t \in TableNames |-> NoLoads]
    /\ runs = 1 /\ run_log = EmptyRunLog

Raise(where) == pc' = "raised" /\ run_log' = [run_log EXCEPT !.raised_in = where]

(* line 196 *)
ParseGetJson ==
    /\ pc = "parse"
    /\ IF get_json_raises(request)
       THEN /\ IF parse_except("get_json") = "fallback"
               THEN /\ pc' = "parse_fallback"
                    /\ run_log' = [run_log EXCEPT !.parse = Append(@, <<"get_json", FALSE>>)]
               ELSE /\ pc' = "raised"
                    /\ run_log' = [run_log EXCEPT !.parse = Append(@, <<"get_json", FALSE>>),
                                                  !.raised_in = "main"]
            /\ UNCHANGED table_name
       ELSE /\ pc' = main_after("parse").pc
            /\ table_name' = main_after("parse").table_name
            /\ run_log' = [run_log EXCEPT !.parse = Append(@, <<"get_json", TRUE>>)]
    /\ UNCHANGED <<fnvars, request, locations, li, weather_data, current_weather,
                   forecast_weather, return_value, dataset_exists, tables, load_log, runs, calls>>

(* lines 197-198 *)
ParseFallback ==
    /\ pc = "parse_fallback"
    /\ IF json_loads_raises(request)
       THEN /\ pc' = "raised"
            /\ run_log' = [run_log EXCEPT !.parse = Append(@, <<"json.loads", FALSE>>),
                                          !.raised_in = "main"]
            /\ UNCHANGED table_name
       ELSE /\ pc' = main_after("parse").pc
            /\ table_name' = main_after("parse").table_name
            /\ run_log' = [run_log EXCEPT !.parse = Append(@, <<"json.loads", TRUE>>)]
    /\ UNCHANGED <<fnvars, request, locations, li, weather_data, current_weather,
                   forecast_weather, return_value, dataset_exists, tables, load_log, runs, calls>>

(* get_weather_data, line 105 for location li, and the except of 107-108 *)
FetchCurrent ==
    /\ pc = "fetch_current" /\ li <= Len(locations)
    /\ \E response \in ProviderResponses(CurrentJson(li)) :
          LET got == fetch_api_data(response) IN
          /\ calls' = [calls EXCEPT ![li].current = @ + 1, ![li].current_ok = (got.raise = "")]
          /\ IF got.raise = ""
             THEN /\ weather_data' = [weather_data EXCEPT
                                         !.current = DictSet(@, locations[li][1], got.value)]
                  /\ pc' = "fetch_forecast"
                  /\ UNCHANGED <<li, run_log>>
             ELSE IF is_RequestException(got.raise)
                  THEN /\ li' = li + 1
                       /\ UNCHANGED <<weather_data, pc, run_log>>
                  ELSE /\ Raise("get_weather_data")
                       /\ UNCHANGED <<weather_data, li>>
    /\ UNCHANGED <<fnvars, request, locations, current_weather, forecast_weather, table_name,
                   return_value, dataset_exists, tables, load_log, runs>>

(* get_weather_data, line 106 for location li, and the except of 107-108 *)
FetchForecast ==
    /\ pc = "fetch_forecast"
    /\ \E response \in ProviderResponses(ForecastJson(li)) :
          LET got == fetch_api_data(response) IN
          /\ calls' = [calls EXCEPT ![li].forecast = @ + 1, ![li].forecast_ok = (got.raise = "")]
          /\ IF got.raise = ""
             THEN /\ weather_data' = [weather_data EXCEPT
                                         !.forecast = DictSet(@, locations[li][1], got.value)]
                  /\ pc' = "fetch_current" /\ li' = li + 1
                  /\ UNCHANGED run_log
             ELSE IF is_RequestException(got.raise)
                  THEN /\ pc' = "fetch_current" /\ li' = li + 1
                       /\ UNCHANGED <<weather_data, run_log>>
                  ELSE /\ Raise("get_weather_data")
                       /\ UNCHANGED <<weather_data, li>>
    /\ UNCHANGED <<fnvars, request, locations, current_weather, forecast_weather, table_name,
                   return_value, dataset_exists, tables, load_log, runs>>

(* get_weather_data, lines 110-111: the loop is over *)
FetchReturn ==
    /\ pc = "fetch_current" /\ li > Len(locations)
    /\ pc' = main_after("get_weather_data").pc
    /\ table_name' = main_after("get_weather_data").table_name
    /\ UNCHANGED <<fnvars, request, locations, li, weather_data, current_weather,
                   forecast_weather, return_value, dataset_exists, tables, load_log, runs,
                   calls, run_log>>

(* main, lines 202-204 *)
TransformCurrent ==
    /\ pc = "transform_current"
    /\ current_weather' = current_weather_loop(EmptyDataFrame, weather_data.current, 1)
    /\ run_log' = [run_log EXCEPT !.transformed = @ \cup {"current"}]
    /\ pc' = main_after("transform_current").pc
    /\ table_name' = main_after("transform_current").table_name
    /\ UNCHANGED <<fnvars, request, locations, li, weather_data, forecast_weather,
                   return_value, dataset_exists, tables, load_log, runs, calls>>

(* main, lines 205-207 *)
TransformForecast ==
    /\ pc = "transform_forecast"
    /\ forecast_weather' = forecast_weather_loop(EmptyDataFrame, weather_data.forecast, 1)
    /\ run_log' = [run_log EXCEPT !.transformed = @ \cup {"forecast"}]
    /\ pc' = main_after("transform_forecast").pc
    /\ table_name' = main_after("transform_forecast").table_name
    /\ UNCHANGED <<fnvars, request, locations, li, weather_data, current_weather,
                   return_value, dataset_exists, tables, load_log, runs, calls>>

(* upload_df_to_bigquery, lines 31-37 *)
CreateDataset ==
    /\ pc = "create_dataset"
    /\ \E outcome \in create_dataset_outcomes(dataset_exists) :
          IF outcome = "created"
          THEN dataset_exists' = TRUE /\ pc' = "load" /\ UNCHANGED run_log
          ELSE IF create_dataset_except(outcome) = "pass"
               THEN pc' = "load" /\ UNCHANGED <<dataset_exists, run_log>>
               ELSE Raise("upload_df_to_bigquery") /\ UNCHANGED dataset_exists
    /\ UNCHANGED <<fnvars, request, locations, li, weather_data, current_weather,
                   forecast_weather, table_name, return_value, tables, load_log, runs, calls>>

(* upload_df_to_bigquery, lines 55-64 *)
Load ==
    /\ pc = "load"
    /\ LET dataframe == IF table_name = "current_weather" THEN current_weather
                        ELSE forecast_weather
       IN \E outcome \in load_outcomes(dataset_exists) :
          IF outcome = "DONE"
          THEN /\ tables' = [tables EXCEPT
                                ![table_name] = load_table_from_dataframe(@, dataframe, job_config)]
               /\ load_log' = [load_log EXCEPT
                                  ![table_name] = [count |-> @.count + 1, last |-> dataframe,
                                                   repeated |-> @.count > 0 /\ @.last = dataframe]]
               /\ run_log' = [run_log EXCEPT
                                 !.loads = Append(@, [table_name |-> table_name, ok |-> TRUE,
                                                      rows |-> Len(dataframe.rows)])]
               /\ pc' = main_after(table_name).pc
               /\ table_name' = main_after(table_name).table_name
          ELSE /\ UNCHANGED <<tables, load_log>>
               /\ IF load_except(outcome) = "raise"
                  THEN /\ pc' = "raised"
                       /\ run_log' = [run_log EXCEPT
                                         !.loads = Append(@, [table_name |-> table_name, ok |-> FALSE,
                                                              rows |-> Len(dataframe.rows)]),
                                         !.raised_in = "upload_df_to_bigquery"]
                       /\ UNCHANGED table_name
                  ELSE /\ run_log' = [run_log EXCEPT
                                         !.loads = Append(@, [table_name |-> table_name, ok |-> FALSE,
                                                              rows |-> Len(dataframe.rows)])]
                       /\ pc' = main_after(table_name).pc
                       /\ table_name' = main_after(table_name).table_name
    /\ UNCHANGED <<fnvars, request, locations, li, weather_data, current_weather,
                   forecast_weather, return_value, dataset_exists, runs, calls>>

(* main, line 212 *)
Return ==
    /\ pc = "return"
    /\ pc' = "done" /\ return_value' = "200, Success"
    /\ UNCHANGED <<fnvars, request, locations, li, weather_data, current_weather,
                   forecast_weather, table_name, dataset_exists, tables, load_log, runs,
                   calls, run_log>>

(* The job is triggered again (src/trigger_cloud_function.py, line 10)     *)
(* once the previous invocation is over; the warehouse keeps its contents. *)
Invoke ==
    /\ pc \in {"done", "raised"} /\ runs < MaxRuns
    /\ \E req \in Requests : Start(req)
    /\ runs' = runs + 1
    /\ UNCHANGED <<fnvars, locations, dataset_exists, tables, load_log>>

(* The steps of one invocation: the single thread of main. *)
RunStep ==
    \/ ParseGetJson \/ ParseFallback
    \/ FetchCurrent \/ FetchForecast \/ FetchReturn
    \/ TransformCurrent \/ TransformForecast
    \/ CreateDataset \/ Load \/ Return

Next == RunStep \/ Invoke

Spec == Init /\ [][Next]_vars

(***************************************************************************)
(* C3.  The flattening loops.                                              *)
(***************************************************************************)
Flattened == fpc \in {"current_flattened", "convert_flattened"}

NoNestedMapping(d) == \A i \in DOMAIN d : d[i][2].kind # "dict"

(* The contract of the Row Flattener between an input and an output dict. *)
FlattenContract(in, out) ==
    /\ NoNestedMapping(in) => out = in
    /\ \A i \in DOMAIN in :
          in[i][2].kind = "dict" =>
             /\ \A j \in DOMAIN in[i][2].d :
                   /\ HasKey(out, in[i][1] \o "_" \o in[i][2].d[j][1])
                   /\ DictGet(out, in[i][1] \o "_" \o in[i][2].d[j][1]) = in[i][2].d[j][2]
             /\ ~HasKey(out, in[i][1])

(* The (position, inner position) pairs of the nested entries of an input, *)
(* and the name K_i of each.                                               *)
NestedPositions(in) ==
    UNION {{<<i, j>> : j \in DOMAIN in[i][2].d} : i \in {k \in DOMAIN in : in[k][2].kind = "dict"}}
NameAt(in, p) == in[p[1]][1] \o "_" \o in[p[1]][2].d[p[2]][1]

(* No name K_i is a top-level key of the input or the name of another pair. *)
NoNameClash(in) ==
    \A p \in NestedPositions(in) :
        /\ \A i \in DOMAIN in : in[i][1] # NameAt(in, p)
        /\ \A q \in NestedPositions(in) : p # q => NameAt(in, p) # NameAt(in, q)

(* C3 as stated: the Row Flattener's contract holds after either loop for   *)
(* every input, name clashes included.                                     *)
C3_FlattenEveryInput == Flattened => FlattenContract(data_dict, local)

(* C3 amended: after either flattening loop, an input without a nested     *)
(* mapping is returned unchanged, and an input with a nested mapping under *)
(* K has one entry K_i per inner key i, holding the inner value, and no    *)
(* entry K, provided no name K_i equals a top-level key of the input or    *)
(* the name of another (key, inner key) pair.                              *)
C3_FlattenNoClash == (Flattened /\ NoNameClash(data_dict)) => FlattenContract(data_dict, local)

(* A clash-free input with a nested mapping beside another key, flattened. *)
C3_Witness ==
    /\ Flattened /\ NoNameClash(data_dict)
    /\ Len(data_dict) >= 2
    /\ \E i \in DOMAIN data_dict : data_dict[i][2].kind = "dict" /\ Len(data_dict[i][2].d) >= 1
    /\ local # data_dict

(***************************************************************************)
(* C4.  The forecast transformer.                                          *)
(***************************************************************************)
ForecastIntervals == DictGet(data_dict, "list").l

(* The flattened row of interval k (its weather list replaced by its first *)
(* element) and of the city object.                                        *)
IntervalRow(k) ==
    extracted_data_of(DictSet(ForecastIntervals[k].d, "weather",
                              DictGet(ForecastIntervals[k].d, "weather").l[1]))
CityRow == extracted_data_of(DictGet(data_dict, "city").d)
IntervalColumns == UNION {DictKeys(IntervalRow(k)) : k \in DOMAIN ForecastIntervals}

(* The name a column carries after the cross merge. *)
IntervalColumnName(c) == IF c \in DictKeys(CityRow) THEN c \o "_x" ELSE c
CityColumnName(c) == IF c \in IntervalColumns THEN c \o "_y" ELSE c

(* C4: the returned table has one row per interval, row k carries the      *)
(* fields of interval k (input order), and every row carries the values of *)
(* the one city row in its city-derived columns.                           *)
C4_ForecastCrossJoin ==
    fpc = "forecast_done" =>
        /\ Len(result.rows) = Len(ForecastIntervals)
        /\ \A k \in DOMAIN result.rows :
              /\ \A c \in DictKeys(IntervalRow(k)) :
                    Cell(result, k, IntervalColumnName(c)) = DictGet(IntervalRow(k), c)
              /\ \A c \in DictKeys(CityRow) :
                    /\ HasColumn(result, CityColumnName(c))
                    /\ Cell(result, k, CityColumnName(c)) = DictGet(CityRow, c)
              /\ \A k2 \in DOMAIN result.rows :
                    \A c \in DictKeys(CityRow) :
                        Cell(result, k, CityColumnName(c)) = Cell(result, k2, CityColumnName(c))

(* Two different intervals, one of them sharing the column "id" with the   *)
(* city, merged.                                                           *)
C4_Witness ==
    /\ fpc = "forecast_done"
    /\ Len(ForecastIntervals) = MaxIntervals
    /\ ForecastIntervals[1] # ForecastIntervals[2]
    /\ "id" \in IntervalColumns \cap DictKeys(CityRow)
    /\ Len(result.rows) = MaxIntervals

(* The empty forecast list: a table of no rows. *)
C4_WitnessEmpty == fpc = "forecast_done" /\ Len(ForecastIntervals) = 0 /\ Len(result.rows) = 0

(***************************************************************************)
(* Claims about main, get_weather_data and upload_df_to_bigquery.          *)
(***************************************************************************)
LocationIndices == DOMAIN locations

(* get_weather_data has returned to main in this invocation. *)
GetWeatherDataReturned ==
    \/ pc \in {"transform_current", "transform_forecast", "create_dataset", "load", "return", "done"}
    \/ pc = "raised" /\ run_log.raised_in = "upload_df_to_bigquery"

InGetWeatherData == pc \in {"fetch_current", "fetch_forecast"}

(* The request body was parsed by one of the two paths. *)
Parsed == run_log.parse # <<>> /\ run_log.parse[Len(run_log.parse)][2]

(* C1: a location is in either returned result set only if both of its     *)
(* calls succeeded, so the two result sets have the same keys.             *)
C1_AllOrNothing ==
    GetWeatherDataReturned =>
        /\ \A i \in LocationIndices :
              (HasKey(weather_data.current, locations[i][1])
                 \/ HasKey(weather_data.forecast, locations[i][1]))
              => (calls[i].current_ok /\ calls[i].forecast_ok)
        /\ DictKeys(weather_data.current) = DictKeys(weather_data.forecast)

(* C2: a failed fetch never leaves get_weather_data by an exception and is *)
(* never retried: every location before the loop's position, and every     *)
(* location once the function has returned, has had exactly one            *)
(* current-weather call; every step of the function moves its loop on, and *)
(* the function is left only by its return, after the last location.       *)
C2_Safety ==
    /\ run_log.raised_in # "get_weather_data"
    /\ \A i \in LocationIndices : calls[i].current <= 1 /\ calls[i].forecast <= 1
    /\ InGetWeatherData =>
          \A i \in LocationIndices : i < li => calls[i].current = 1
    /\ GetWeatherDataReturned =>
          \A i \in LocationIndices : calls[i].current = 1

LoopPosition == 2 * li + (IF pc = "fetch_forecast" THEN 1 ELSE 0)

C2_Step ==
    InGetWeatherData =>
        \/ InGetWeatherData' /\ LoopPosition' > LoopPosition
        \/ pc' = "transform_current" /\ li > Len(locations) /\ run_log' = run_log

C2_FetchContinues == []C2_Safety /\ [][C2_Step]_vars

(* A first location whose current call failed, a second one fetched. *)
C2_Witness ==
    /\ GetWeatherDataReturned /\ Len(locations) >= 2
    /\ ~calls[1].current_ok /\ calls[1].current = 1
    /\ calls[2].current_ok /\ calls[2].forecast_ok

(* C5: a destination that has been loaded holds exactly the columns and    *)
(* rows of the last successful load into it, whatever it held before.      *)
C5_WriteTruncate ==
    \A t \in TableNames :
        load_log[t].count > 0 =>
            /\ tables[t].exists
            /\ tables[t].columns = load_log[t].last.columns
            /\ tables[t].rows = load_log[t].last.rows
            /\ Len(tables[t].rows) = Len(load_log[t].last.rows)

(* The same non-empty table loaded twice into one destination. *)
C5_Witness ==
    \E t \in TableNames :
        /\ load_log[t].count >= 2 /\ load_log[t].repeated
        /\ Len(load_log[t].last.rows) >= 1
        /\ Len(tables[t].rows) = Len(load_log[t].last.rows)

(* A load of a different table over earlier contents. *)
C5_WitnessReplaced ==
    \E t \in TableNames : load_log[t].count >= 2 /\ ~load_log[t].repeated

(* C6: a write is started only after every location has been fetched and  *)
(* both transforms are done; the loads are current_weather then            *)
(* forecasted_weather, the second started only after the first completed;  *)
(* '200, Success' is returned only after both loads completed.             *)
WriteStarted == pc \in {"create_dataset", "load"} \/ run_log.loads # <<>>

C6_LinearOrder ==
    /\ run_log.transformed # {} =>
          /\ "current" \in run_log.transformed
          /\ li > Len(locations)
          /\ \A i \in LocationIndices : calls[i].current = 1
    /\ WriteStarted =>
          /\ li > Len(locations)
          /\ \A i \in LocationIndices : calls[i].current = 1
          /\ run_log.transformed = {"current", "forecast"}
    /\ Len(run_log.loads) <= 2
    /\ \A k \in DOMAIN run_log.loads :
          run_log.loads[k].table_name = <<"current_weather", "forecasted_weather">>[k]
    /\ (pc \in {"create_dataset", "load"} /\ table_name = "forecasted_weather") =>
          (Len(run_log.loads) = 1 /\ run_log.loads[1].ok)
    /\ (pc \in {"create_dataset", "load"} /\ table_name = "current_weather") =>
          run_log.loads = <<>>
    /\ (return_value = "200, Success" \/ pc \in {"return", "done"}) =>
          (Len(run_log.loads) = 2 /\ run_log.loads[1].ok /\ run_log.loads[2].ok)
    /\ return_value = "200, Success" <=> pc = "done"

(* A run over a full registry that returned '200, Success'. *)
C6_Witness ==
    /\ pc = "done" /\ return_value = "200, Success"
    /\ Len(locations) >= 2
    /\ Len(tables["current_weather"].rows) >= 1

(* C7: a failed load is the last thing its invocation does: main raises    *)
(* out of upload_df_to_bigquery, never returns '200, Success', and a       *)
(* failed current_weather load leaves the forecasted_weather load          *)
(* unsubmitted.                                                            *)
C7_LoadFailureFatal ==
    \A k \in DOMAIN run_log.loads :
        ~run_log.loads[k].ok =>
            /\ k = Len(run_log.loads)
            /\ pc = "raised" /\ run_log.raised_in = "upload_df_to_bigquery"
            /\ return_value # "200, Success"
            /\ run_log.loads[k].table_name = "current_weather" =>
                  \A j \in DOMAIN run_log.loads :
                      run_log.loads[j].table_name # "forecasted_weather"

(* The current_weather load failed. *)
C7_Witness ==
    /\ pc = "raised"
    /\ Len(run_log.loads) = 1
    /\ run_log.loads[1].table_name = "current_weather" /\ ~run_log.loads[1].ok

(* The forecasted_weather load failed after the current_weather one. *)
C7_WitnessSecond ==
    /\ pc = "raised"
    /\ Len(run_log.loads) = 2 /\ run_log.loads[1].ok /\ ~run_log.loads[2].ok

(* C8: whenever a load is about to be submitted, the destination dataset   *)
(* exists.                                                                 *)
C8_DatasetExistsAtLoad == pc = "load" => dataset_exists

(* C9: get_json is tried first and json.loads only after it failed; when   *)
(* both fail main raises with no call to the provider and no load; when    *)
(* either succeeds the invocation goes on to the fetch phase.              *)
NothingFetchedOrWritten ==
    /\ \A i \in LocationIndices : calls[i].current = 0 /\ calls[i].forecast = 0
    /\ weather_data = [current |-> <<>>, forecast |-> <<>>]
    /\ run_log.loads = <<>> /\ run_log.transformed = {}

C9_RequestParsing ==
    /\ Len(run_log.parse) <= 2
    /\ pc = "parse" <=> run_log.parse = <<>>
    /\ pc = "parse_fallback" <=> run_log.parse = << <<"get_json", FALSE>> >>
    /\ run_log.parse # <<>> => run_log.parse[1][1] = "get_json"
    /\ Len(run_log.parse) = 2 =>
          (~run_log.parse[1][2] /\ run_log.parse[2][1] = "json.loads")
    /\ run_log.raised_in = "main" <=>
          run_log.parse = << <<"get_json", FALSE>>, <<"json.loads", FALSE>> >>
    /\ run_log.raised_in = "main" => (pc = "raised" /\ NothingFetchedOrWritten)
    /\ pc \in {"parse", "parse_fallback"} => NothingFetchedOrWritten
    /\ Parsed <=> (InGetWeatherData \/ GetWeatherDataReturned)
    /\ (request.type = "Request" /\ request.valid_json /\ pc # "parse") =>
          run_log.parse = << <<"get_json", TRUE>> >>
    /\ (request.type = "str" /\ request.valid_json /\ pc \notin {"parse", "parse_fallback"}) =>
          run_log.parse = << <<"get_json", FALSE>>, <<"json.loads", TRUE>> >>

(* Both parse paths failed. *)
C9_Witness ==
    /\ pc = "raised" /\ run_log.raised_in = "main"
    /\ run_log.parse = << <<"get_json", FALSE>>, <<"json.loads", FALSE>> >>
    /\ Len(locations) >= 1

(* The fallback path parsed a raw JSON string and the run reached a fetch. *)
C9_WitnessFallback ==
    /\ run_log.parse = << <<"get_json", FALSE>>, <<"json.loads", TRUE>> >>
    /\ Len(locations) >= 1 /\ calls[1].current = 1

(* C10: an invocation that parsed its body does not end, whatever the      *)
(* fetches came to, before it has submitted the current_weather load and,  *)
(* that load having completed, the forecasted_weather load; when every     *)
(* call failed both submitted tables are empty and a completed load leaves *)
(* its destination empty.                                                  *)
RunOver == pc \in {"done", "raised"}
NothingFetched == weather_data = [current |-> <<>>, forecast |-> <<>>]

C10_WritesFollowFetch ==
    /\ (RunOver /\ Parsed) =>
          /\ Len(run_log.loads) >= 1
          /\ run_log.loads[1].table_name = "current_weather"
          /\ run_log.loads[1].ok =>
                (Len(run_log.loads) = 2 /\ run_log.loads[2].table_name = "forecasted_weather")
    /\ (GetWeatherDataReturned /\ NothingFetched) =>
          \A k \in DOMAIN run_log.loads :
              /\ run_log.loads[k].rows = 0
              /\ run_log.loads[k].ok =>
                    tables[run_log.loads[k].table_name] =
                        [exists |-> TRUE, columns |-> <<>>, rows |-> <<>>]

(* Every call of a non-empty registry failed, and both empty tables        *)
(* replaced rows an earlier invocation had loaded.                         *)
C10_Witness ==
    /\ pc = "done" /\ Len(locations) >= 1 /\ NothingFetched
    /\ \A i \in LocationIndices : ~calls[i].current_ok
    /\ \A t \in TableNames :
          load_log[t].count >= 2 /\ ~load_log[t].repeated /\ tables[t].rows = <<>>

====
